---- MODULE Spec2Model ----
(***************************************************************************)
(* A model of the post-processing and case-management code of the          *)
(* repository: the attack-stage mapper, the confidence scorer and the      *)
(* severity classifier of rag_engine.py, the escalation policy, and the    *)
(* case stores of case_manager.py and app.py.                              *)
(*                                                                         *)
(* Strings that the code inspects character by character (technique ids,   *)
(* incident summaries) are sequences of one-character strings.  Relevance  *)
(* scores are exact hundredths (65 stands for 0.65); risk and anomaly      *)
(* scores are tenths (701 stands for 70.1), the one decimal they are       *)
(* rounded to.                                                             *)
(***************************************************************************)
EXTENDS Integers, Sequences, FiniteSets, TLC

VARIABLES
    pc,             \* "ready" before a pure function is called, "done" after
    techniques,     \* argument of analyze_attack_progression
    progression,    \* its return value
    sev_stage,      \* argument current_stage of determine_severity
    sev_conf,       \* argument confidence_level of determine_severity
    severity,       \* its return value
    scores,         \* argument of calculate_confidence
    confidence,     \* its return value
    cases_file,     \* contents of data/cases.json (case_manager.py)
    cases_store,    \* the in-memory list cases_store of app.py
    call,           \* the last case operation and its arguments
    ret,            \* what that operation returned
    risk_score,     \* arguments of should_escalate: the risk score,
    anomaly_score,  \*   the anomaly score (both in tenths)
    has_malicious_indicator,    \* and the threat-indicator flag
    event_summary,  \* the summary of the assessed event
    escalated,      \* the decision of should_escalate
    sklearn_available,  \* SKLEARN_AVAILABLE of ml_engine.py
    import_state,   \* "start", then "imported" or "raised" (lines 211-213)
    risk_model,     \* RiskPredictor.model
    bp_model,       \* BehaviorProfiler.model
    observations,   \* BehaviorProfiler.observations
    observation_count,  \* BehaviorProfiler._observation_count
    ml_call,        \* the last call on a predictor or profiler
    ml_ret,         \* the score it returned, in tenths
    threads,        \* the concurrent update_and_score calls in progress
    def_severity,   \* arguments of generate_defense_actions
    def_techniques,
    def_anomalies,
    actions,        \* the set of actions it returned
    analysis_json,  \* what the LLM chain returned to process_query
    result          \* what process_query and /analyze returned

stageVars == <<techniques, progression>>
sevVars   == <<sev_stage, sev_conf, severity>>
confVars  == <<scores, confidence>>
caseVars  == <<cases_file, cases_store, call, ret>>
escVars   == <<risk_score, anomaly_score, has_malicious_indicator,
               event_summary, escalated>>
mlVars    == <<sklearn_available, import_state, risk_model, bp_model,
               observations, observation_count, ml_call, ml_ret>>
defVars   == <<def_severity, def_techniques, def_anomalies, actions>>
pipeVars  == <<analysis_json, result>>
extVars   == <<mlVars, threads, defVars, pipeVars>>
vars      == <<pc, techniques, progression, sev_stage, sev_conf, severity,
               scores, confidence, cases_file, cases_store, call, ret,
               risk_score, anomaly_score, has_malicious_indicator,
               event_summary, escalated, sklearn_available, import_state,
               risk_model, bp_model, observations, observation_count,
               ml_call, ml_ret, threads, def_severity, def_techniques,
               def_anomalies, actions, analysis_json, result>>

\* Values the result variables hold before the call.
NoResult == "NoResult"

NoProgression == [stage_status |-> <<>>, current_stage |-> "", next_stage |-> ""]

NoConfidence == [level |-> "", reason |-> ""]

\* Python's None, as a return value: the empty tuple; a value v is <<v>>.
None == <<>>

\* The case id and the request body of a call that has none.
NoId == <<"", 0>>

NoData == [none \in {} |-> 0]

NoCall == [op |-> "none", case_id |-> NoId, status |-> "", data |-> NoData]

NoReturn == [code |-> "none", case |-> None]

\* An estimator: None (fitted is FALSE), or fitted on the synthetic
\* baseline or on a window of observations.
NoModel == [fitted |-> FALSE, source |-> "none", data |-> <<>>]

NoMlCall == [op |-> "none", outcome |-> "none", refit |-> "none", raw |-> 0,
             input |-> [t |-> "None", v |-> <<>>]]

NoOutput == [kind |-> "none"]

(***************************************************************************)
(* Bounds                                                                  *)
(***************************************************************************)
MaxTechs == 2

MaxScores == 3

\* The number of cases created in a run, over both stores, and the largest
\* number a case id may carry (the code draws it from 1000..9999).
MaxCases == 2

MaxCaseId == 1001

(***************************************************************************)
(* Helpers on sequences                                                    *)
(***************************************************************************)
Range(s) == {s[i] : i \in 1..Len(s)}

SeqsUpTo(S, n) == UNION {[1..k -> S] : k \in 0..n}

SetMax(S) == CHOOSE x \in S : \A y \in S : y <= x

SetMin(S) == CHOOSE x \in S : \A y \in S : x <= y

(***************************************************************************)
(* rag_engine.py : the stage table and the canonical stage order           *)
(***************************************************************************)
T1078 == <<"T", "1", "0", "7", "8">>
T1190 == <<"T", "1", "1", "9", "0">>
T1059 == <<"T", "1", "0", "5", "9">>
T1105 == <<"T", "1", "1", "0", "5">>
T1547 == <<"T", "1", "5", "4", "7">>
T1021 == <<"T", "1", "0", "2", "1">>
T1003 == <<"T", "1", "0", "0", "3">>
T1055 == <<"T", "1", "0", "5", "5">>
T1486 == <<"T", "1", "4", "8", "6">>
T1562 == <<"T", "1", "5", "6", "2">>
T1041 == <<"T", "1", "0", "4", "1">>
T1071 == <<"T", "1", "0", "7", "1">>
T1059_001 == <<"T", "1", "0", "5", "9", ".", "0", "0", "1">>
T1098 == <<"T", "1", "0", "9", "8">>
T1046 == <<"T", "1", "0", "4", "6">>
T1083 == <<"T", "1", "0", "8", "3">>

MITRE_STAGE_MAP ==
    (T1078 :> <<"Initial Access", "Persistence">>) @@
    (T1190 :> <<"Initial Access">>) @@
    (T1059 :> <<"Execution">>) @@
    (T1105 :> <<"Command & Control">>) @@
    (T1547 :> <<"Persistence">>) @@
    (T1021 :> <<"Lateral Movement">>) @@
    (T1003 :> <<"Credential Access", "Privilege Escalation">>) @@
    (T1055 :> <<"Privilege Escalation", "Defense Evasion">>) @@
    (T1486 :> <<"Impact">>) @@
    (T1562 :> <<"Defense Evasion">>) @@
    (T1041 :> <<"Exfiltration">>) @@
    (T1071 :> <<"Command & Control">>) @@
    (T1059_001 :> <<"Execution">>) @@
    (T1098 :> <<"Persistence", "Privilege Escalation">>) @@
    (T1046 :> <<"Discovery">>) @@
    (T1083 :> <<"Discovery">>)

ATTACK_STAGE_ORDER ==
    << "Initial Access", "Execution", "Persistence", "Privilege Escalation",
       "Defense Evasion", "Credential Access", "Discovery",
       "Lateral Movement", "Collection", "Command & Control",
       "Exfiltration", "Impact" >>

Stages == Range(ATTACK_STAGE_ORDER)

\* The sentinel returned as next stage after the last stage.
Sentinel == "Attack Objective Achieved"

(***************************************************************************)
(* rag_engine.py : analyze_attack_progression                              *)
(***************************************************************************)
\* MITRE_STAGE_MAP.get(tech, [])
MapGet(tech) ==
    IF tech \in DOMAIN MITRE_STAGE_MAP THEN MITRE_STAGE_MAP[tech] ELSE <<>>

\* "." in tech
HasDot(tech) == \E i \in 1..Len(tech) : tech[i] = "."

\* tech.split(".")[0] : the characters before the first separator
SplitBase(tech) ==
    IF HasDot(tech)
    THEN SubSeq(tech, 1, SetMin({i \in 1..Len(tech) : tech[i] = "."}) - 1)
    ELSE tech

\* the stages one technique id maps to, after the sub-technique fallback
MappedStagesNoFallback(tech) == MapGet(tech)

MappedStages(tech) ==
    LET mapped == MapGet(tech)
    IN IF mapped = <<>> /\ HasDot(tech) THEN MapGet(SplitBase(tech))
       ELSE mapped

\* for stage in mapped_stages: if stage in stage_status: mark it
MarkStagesReset(status, mapped) ==
    [stage \in DOMAIN status |-> stage \in Range(mapped)]

MarkStages(status, mapped) ==
    [stage \in DOMAIN status |->
        IF stage \in Range(mapped) THEN TRUE ELSE status[stage]]

\* the loop over the technique list, in list order
RECURSIVE MarkAll(_, _)
MarkAll(status, techs) ==
    IF techs = <<>> THEN status
    ELSE MarkAll(MarkStages(status, MappedStages(Head(techs))), Tail(techs))

ReachedIndices(status) ==
    {i \in 1..Len(ATTACK_STAGE_ORDER) : status[ATTACK_STAGE_ORDER[i]]}

\* Indices are those of the code plus one (TLA+ sequences start at 1), so
\* the code's test reached_index + 1 < len(...) reads <= below.
ReachedIndexFirst(status) ==
    IF ReachedIndices(status) = {} THEN 1 ELSE SetMin(ReachedIndices(status))

ReachedIndex(status) ==
    IF ReachedIndices(status) = {} THEN 1 ELSE SetMax(ReachedIndices(status))

\* the timeline returned: the first stage is forced when nothing was reached
FinalStatusNoDefault(status) == status

FinalStatus(status) ==
    IF ReachedIndices(status) = {}
    THEN [status EXCEPT ![ATTACK_STAGE_ORDER[1]] = TRUE]
    ELSE status

NextStageOffByOne(reached_index) ==
    IF reached_index + 1 < Len(ATTACK_STAGE_ORDER)
    THEN ATTACK_STAGE_ORDER[reached_index + 1]
    ELSE Sentinel

NextStage(reached_index) ==
    IF reached_index + 1 <= Len(ATTACK_STAGE_ORDER)
    THEN ATTACK_STAGE_ORDER[reached_index + 1]
    ELSE Sentinel

analyze_attack_progression(techs) ==
    LET marked == MarkAll([stage \in Stages |-> FALSE], techs)
        reached_index == ReachedIndex(marked)
    IN [ stage_status  |-> FinalStatus(marked),
         current_stage |-> ATTACK_STAGE_ORDER[reached_index],
         next_stage    |-> NextStage(reached_index) ]

(***************************************************************************)
(* Technique ids offered to the stage mapper: every key of the table, and  *)
(* ids that are not keys, with and without a sub-technique separator.      *)
(***************************************************************************)
T1078_004 == <<"T", "1", "0", "7", "8", ".", "0", "0", "4">>
T1486_002 == <<"T", "1", "4", "8", "6", ".", "0", "0", "2">>
T9999 == <<"T", "9", "9", "9", "9">>
T9999_001 == <<"T", "9", "9", "9", "9", ".", "0", "0", "1">>
DotOnly == <<".">>

TechIds ==
    DOMAIN MITRE_STAGE_MAP \cup {T1078_004, T1486_002, T9999, T9999_001, DotOnly}

TechLists == SeqsUpTo(TechIds, MaxTechs)

(***************************************************************************)
(* Values of the variables a specification does not use                    *)
(***************************************************************************)
StageIdle == techniques = <<>> /\ progression = NoProgression
SevIdle   == sev_stage = "" /\ sev_conf = "" /\ severity = NoResult
ConfIdle  == scores = <<>> /\ confidence = NoConfidence
CaseIdle  == cases_file = <<>> /\ cases_store = <<>> /\ call = NoCall
             /\ ret = NoReturn
EscIdle   == risk_score = 0 /\ anomaly_score = 0
             /\ has_malicious_indicator = FALSE /\ event_summary = <<>>
             /\ escalated = FALSE
MlIdle    == sklearn_available = TRUE /\ import_state = "start"
             /\ risk_model = NoModel /\ bp_model = NoModel
             /\ observations = <<>> /\ observation_count = 0
             /\ ml_call = NoMlCall /\ ml_ret = 0
ThreadIdle == threads = <<>>
DefIdle   == def_severity = "" /\ def_techniques = <<>>
             /\ def_anomalies = <<>> /\ actions = {}
PipeIdle  == analysis_json = NoData /\ result = NoOutput
ExtIdle   == MlIdle /\ ThreadIdle /\ DefIdle /\ PipeIdle

(***************************************************************************)
(* Specification of the stage mapper: one call on any technique list       *)
(***************************************************************************)
StageInit ==
    /\ pc = "ready"
    /\ techniques \in TechLists
    /\ progression = NoProgression
    /\ SevIdle /\ ConfIdle /\ CaseIdle /\ EscIdle /\ ExtIdle

AnalyzeProgression ==
    /\ pc = "ready"
    /\ pc' = "done"
    /\ progression' = analyze_attack_progression(techniques)
    /\ UNCHANGED <<techniques, sevVars, confVars, caseVars, escVars,
                   extVars>>

StageNext == AnalyzeProgression

StageSpec == StageInit /\ [][StageNext]_vars

StageIndex(stage) ==
    CHOOSE i \in 1..Len(ATTACK_STAGE_ORDER) : ATTACK_STAGE_ORDER[i] = stage

\* the technique list in every order, and with its ids repeated
Rearrangements(techs) ==
    { [i \in 1..Len(techs) |-> techs[p[i]]] :
          p \in Permutations(1..Len(techs)) }
    \cup {techs \o techs}
    \cup (IF techs = <<>> THEN {} ELSE {<<techs[Len(techs)]>> \o techs})

\* C1: for every technique list the current stage returned is one of the
\* 12 canonical stages and at least one stage of the timeline is true.
C1_StageAndTimeline ==
    pc = "done" =>
        /\ progression.current_stage \in Stages
        /\ Cardinality(Stages) = 12
        /\ DOMAIN progression.stage_status = Stages
        /\ \E stage \in Stages : progression.stage_status[stage]

\* an empty or wholly unknown list has been analysed
C1_Witness ==
    /\ pc = "done"
    /\ techniques = <<T9999, T9999_001>>
    /\ progression.current_stage = "Initial Access"

\* C2: the current stage is marked true in the timeline, no later stage in
\* canonical order is marked, and reordering or repeating the technique ids
\* gives the same result.
C2_CurrentIsLatest ==
    pc = "done" =>
        /\ progression.current_stage \in Stages
        /\ progression.stage_status[progression.current_stage]
        /\ \A j \in 1..Len(ATTACK_STAGE_ORDER) :
              j > StageIndex(progression.current_stage)
                  => ~progression.stage_status[ATTACK_STAGE_ORDER[j]]
        /\ \A other \in Rearrangements(techniques) :
              analyze_attack_progression(other) = progression

\* a list reaching several stages, the latest given first
C2_Witness ==
    /\ pc = "done"
    /\ techniques = <<T1021, T1078>>
    /\ progression.current_stage = "Lateral Movement"
    /\ progression.stage_status["Initial Access"]

\* C3: next_stage is the canonical successor of current_stage when that is
\* not "Impact", and is the sentinel exactly when current_stage is "Impact".
C3_NextStage ==
    pc = "done" =>
        /\ progression.current_stage # "Impact" =>
              /\ StageIndex(progression.current_stage)
                     < Len(ATTACK_STAGE_ORDER)
              /\ progression.next_stage =
                     ATTACK_STAGE_ORDER[
                         StageIndex(progression.current_stage) + 1]
        /\ progression.next_stage = Sentinel
              <=> progression.current_stage = "Impact"

\* the last stage has been reached and the sentinel returned
C3_Witness ==
    /\ pc = "done"
    /\ T1486_002 \in Range(techniques)
    /\ progression.current_stage = "Impact"
    /\ progression.next_stage = Sentinel

\* the characters of an id before its first separator
BeforeSeparator(tech) ==
    LET dots == {i \in 1..Len(tech) : tech[i] = "."}
    IN [i \in 1..((CHOOSE d \in dots : \A e \in dots : d <= e) - 1) |->
           tech[i]]

\* the stages an id stands for: its own entry of the table, else the entry
\* of its base id when it has a separator, else none
StagesFor(tech) ==
    IF tech \in DOMAIN MITRE_STAGE_MAP THEN Range(MITRE_STAGE_MAP[tech])
    ELSE IF "." \notin Range(tech) THEN {}
    ELSE IF BeforeSeparator(tech) \in DOMAIN MITRE_STAGE_MAP
    THEN Range(MITRE_STAGE_MAP[BeforeSeparator(tech)])
    ELSE {}

ReachedStages == UNION {StagesFor(techniques[i]) : i \in 1..Len(techniques)}

TrueStages == {stage \in DOMAIN progression.stage_status :
                  progression.stage_status[stage]}

\* C23: the timeline has exactly the 12 canonical stages as keys; a stage is
\* true exactly when some technique of the list maps to it (after the
\* sub-technique fallback) or, when no technique maps to any stage, when it
\* is "Initial Access"; in that case the current stage is "Initial Access"
\* and the next stage "Execution".
C23_TimelineExact ==
    pc = "done" =>
        /\ DOMAIN progression.stage_status = Range(ATTACK_STAGE_ORDER)
        /\ Cardinality(DOMAIN progression.stage_status) = 12
        /\ \A stage \in DOMAIN progression.stage_status :
               progression.stage_status[stage] <=>
                   \/ stage \in ReachedStages
                   \/ ReachedStages = {} /\ stage = "Initial Access"
        /\ ReachedStages = {} =>
               /\ progression.current_stage = "Initial Access"
               /\ progression.next_stage = "Execution"

\* a list of one unknown id: nothing maps, the first stage is forced
C23_Witness ==
    /\ pc = "done" /\ techniques = <<T9999>>
    /\ TrueStages = {"Initial Access"}
    /\ progression.next_stage = "Execution"

\* C24: an id that is not a key of the table and holds a separator marks
\* exactly the stages of its base id, none when the base id is absent too;
\* an id that is itself a key (T1059.001) uses its own entry; an unknown id
\* without a separator marks nothing.
C24_SubTechniqueFallback ==
    pc = "done" =>
        /\ \A i \in 1..Len(techniques) :
               LET tech == techniques[i]
                   marked == Range(MappedStages(tech))
                   known == tech \in DOMAIN MITRE_STAGE_MAP
                   dotted == "." \in Range(tech)
               IN /\ known => marked = Range(MITRE_STAGE_MAP[tech])
                  /\ (~known /\ ~dotted) => marked = {}
                  /\ (~known /\ dotted) =>
                         marked =
                             IF BeforeSeparator(tech)
                                    \in DOMAIN MITRE_STAGE_MAP
                             THEN Range(MITRE_STAGE_MAP[BeforeSeparator(tech)])
                             ELSE {}
                  /\ marked \subseteq TrueStages
        /\ techniques = <<T1078_004>> =>
               TrueStages = Range(MITRE_STAGE_MAP[T1078])
        /\ techniques = <<T1059_001>> =>
               TrueStages = Range(MITRE_STAGE_MAP[T1059_001])

\* a sub-technique of a known base next to one of an unknown base
C24_Witness ==
    /\ pc = "done" /\ techniques = <<T1078_004, T9999_001>>
    /\ TrueStages = Range(MITRE_STAGE_MAP[T1078])

(***************************************************************************)
(* rag_engine.py : determine_severity                                      *)
(***************************************************************************)
late_stages == {"Lateral Movement", "Command & Control", "Exfiltration",
                "Impact"}

mid_stages == {"Persistence", "Privilege Escalation", "Defense Evasion",
               "Credential Access", "Collection", "Discovery"}

determine_severity_high_only(current_stage, confidence_level) ==
    IF current_stage \in late_stages
    THEN (IF confidence_level = "High" THEN "Critical" ELSE "High")
    ELSE IF current_stage \in mid_stages
    THEN (IF confidence_level = "High" THEN "High" ELSE "Medium")
    ELSE (IF confidence_level = "High" THEN "Medium" ELSE "Low")

determine_severity(current_stage, confidence_level) ==
    IF current_stage \in late_stages
    THEN (IF confidence_level \in {"High", "Medium"} THEN "Critical"
          ELSE "High")
    ELSE IF current_stage \in mid_stages
    THEN (IF confidence_level = "High" THEN "High" ELSE "Medium")
    ELSE (IF confidence_level = "High" THEN "Medium" ELSE "Low")

(***************************************************************************)
(* Specification of the severity classifier: one call on any stage and     *)
(* confidence level, the canonical ones and strings that are neither       *)
(***************************************************************************)
ConfidenceLevels == {"High", "Medium", "Low"}

SeverityLevels == {"Low", "Medium", "High", "Critical"}

StageInputs == Stages \cup {Sentinel, "Unknown", ""}

ConfidenceInputs == ConfidenceLevels \cup {"high", "Unknown", ""}

SevInit ==
    /\ pc = "ready"
    /\ sev_stage \in StageInputs
    /\ sev_conf \in ConfidenceInputs
    /\ severity = NoResult
    /\ StageIdle /\ ConfIdle /\ CaseIdle /\ EscIdle /\ ExtIdle

DetermineSeverity ==
    /\ pc = "ready"
    /\ pc' = "done"
    /\ severity' = determine_severity(sev_stage, sev_conf)
    /\ UNCHANGED <<sev_stage, sev_conf, stageVars, confVars, caseVars,
                   escVars, extVars>>

SevNext == DetermineSeverity

SevSpec == SevInit /\ [][SevNext]_vars

\* The decision table of the severity classifier, row by row.
DecisionTable ==
    [stage \in Stages, level \in ConfidenceLevels |->
        CASE stage \in {"Lateral Movement", "Command & Control",
                        "Exfiltration", "Impact"}
                 -> (IF level \in {"High", "Medium"} THEN "Critical"
                     ELSE "High")
          [] stage \in {"Persistence", "Privilege Escalation",
                        "Defense Evasion", "Credential Access",
                        "Collection", "Discovery"}
                 -> (IF level = "High" THEN "High" ELSE "Medium")
          [] stage \in {"Initial Access", "Execution"}
                 -> (IF level = "High" THEN "Medium" ELSE "Low")]

\* C4: for each of the 12 stages and each of High, Medium, Low the severity
\* returned is the value of the decision table, and the value returned is
\* always one of Low, Medium, High, Critical.
C4_DecisionTable ==
    pc = "done" /\ severity # NoResult =>
        /\ severity \in SeverityLevels
        /\ (sev_stage \in Stages /\ sev_conf \in ConfidenceLevels)
              => severity = DecisionTable[sev_stage, sev_conf]

\* a late-tier stage with Medium confidence has been classified
C4_Witness ==
    /\ pc = "done"
    /\ sev_stage = "Lateral Movement"
    /\ sev_conf = "Medium"
    /\ severity = "Critical"

(***************************************************************************)
(* rag_engine.py : calculate_confidence                                    *)
(*                                                                         *)
(* A score is a whole number of hundredths, and the mean is compared with  *)
(* a threshold exactly: sum/len > t is sum > t*len for len > 0.            *)
(***************************************************************************)
HighThreshold == 65

MediumThreshold == 45

RECURSIVE SumSeq(_)
SumSeq(s) == IF s = <<>> THEN 0 ELSE Head(s) + SumSeq(Tail(s))

\* float(sum(scores) / len(scores)) > threshold
AvgAbove(s, threshold) == SumSeq(s) > threshold * Len(s)

ReasonEmpty == "No relevant context found in knowledge base."

ReasonHigh == "Strong match with known attack patterns and CVEs."

ReasonMedium == "Partial match with threat intelligence."

ReasonLow == "Limited supporting evidence from knowledge base."

calculate_confidence_inclusive(s) ==
    IF s = <<>> THEN [level |-> "Low", reason |-> ReasonEmpty]
    ELSE IF SumSeq(s) >= HighThreshold * Len(s)
    THEN [level |-> "High", reason |-> ReasonHigh]
    ELSE IF AvgAbove(s, MediumThreshold)
    THEN [level |-> "Medium", reason |-> ReasonMedium]
    ELSE [level |-> "Low", reason |-> ReasonLow]

calculate_confidence_no_division(s) ==
    IF s = <<>> THEN [level |-> "Low", reason |-> ReasonEmpty]
    ELSE IF SumSeq(s) > HighThreshold
    THEN [level |-> "High", reason |-> ReasonHigh]
    ELSE IF SumSeq(s) > MediumThreshold
    THEN [level |-> "Medium", reason |-> ReasonMedium]
    ELSE [level |-> "Low", reason |-> ReasonLow]

calculate_confidence(s) ==
    IF s = <<>> THEN [level |-> "Low", reason |-> ReasonEmpty]
    ELSE IF AvgAbove(s, HighThreshold)
    THEN [level |-> "High", reason |-> ReasonHigh]
    ELSE IF AvgAbove(s, MediumThreshold)
    THEN [level |-> "Medium", reason |-> ReasonMedium]
    ELSE [level |-> "Low", reason |-> ReasonLow]

(***************************************************************************)
(* Specification of the confidence scorer: one call on any score list.     *)
(* The scores offered lie on, just above and below the two thresholds, at  *)
(* the ends of the conventional range and outside it.                      *)
(***************************************************************************)
ScoreValues == {-20, 0, 30, 45, 46, 65, 66, 100}

ScoreLists == SeqsUpTo(ScoreValues, MaxScores)

ConfInit ==
    /\ pc = "ready"
    /\ scores \in ScoreLists
    /\ confidence = NoConfidence
    /\ StageIdle /\ SevIdle /\ CaseIdle /\ EscIdle /\ ExtIdle

CalculateConfidence ==
    /\ pc = "ready"
    /\ pc' = "done"
    /\ confidence' = calculate_confidence(scores)
    /\ UNCHANGED <<scores, stageVars, sevVars, caseVars, escVars,
                   extVars>>

ConfNext == CalculateConfidence

ConfSpec == ConfInit /\ [][ConfNext]_vars

\* The mean of a non-empty list s of hundredths, compared with the mean of
\* t: both sides are multiplied by the two (positive) lengths.
MeanLeq(s, t) == SumSeq(s) * Len(t) <= SumSeq(t) * Len(s)

\* the mean of s is exactly h hundredths
MeanIs(s, h) == s # <<>> /\ SumSeq(s) = h * Len(s)

\* C5: an empty list gives Low with the no-relevant-context reason; a
\* non-empty list gives High iff its mean is above 0.65, Medium iff the mean
\* is above 0.45 and at most 0.65, Low otherwise, so a mean of exactly 0.65
\* is Medium and exactly 0.45 is Low, and each mean is in exactly one band.
C5_ConfidenceBands ==
    pc = "done" /\ confidence # NoConfidence =>
        /\ scores = <<>> => confidence = [level |-> "Low",
                                          reason |-> ReasonEmpty]
        /\ scores # <<>> =>
            /\ confidence.level = "High"
                  <=> SumSeq(scores) > 65 * Len(scores)
            /\ confidence.level = "Medium"
                  <=> /\ SumSeq(scores) > 45 * Len(scores)
                      /\ SumSeq(scores) <= 65 * Len(scores)
            /\ confidence.level = "Low"
                  <=> SumSeq(scores) <= 45 * Len(scores)
            /\ confidence.reason # ReasonEmpty
        /\ MeanIs(scores, 65) => confidence.level = "Medium"
        /\ MeanIs(scores, 45) => confidence.level = "Low"
        /\ Cardinality({l \in ConfidenceLevels : confidence.level = l}) = 1

\* a list whose mean is exactly 0.65, from scores that are not, was scored
C5_Witness ==
    /\ pc = "done"
    /\ scores = <<30, 100>>
    /\ confidence.level = "Medium"

Rank(level) == CASE level = "Low" -> 0 [] level = "Medium" -> 1
                 [] level = "High" -> 2

\* C6: for non-empty score lists, a list whose mean is not above that of
\* another is not given a higher level (Low < Medium < High).
C6_Monotone ==
    pc = "done" /\ scores # <<>> =>
        \A other \in ScoreLists \ {<<>>} :
            MeanLeq(other, scores)
                => Rank(calculate_confidence(other).level)
                       <= Rank(confidence.level)

\* a long list of low scores was scored: its sum is large, its mean is not
C6_Witness ==
    /\ pc = "done"
    /\ scores = <<30, 30, 30>>
    /\ confidence.level = "Low"
    /\ MeanLeq(scores, <<46>>)

(***************************************************************************)
(* case_manager.py and app.py : case records                               *)
(*                                                                         *)
(* cases_file is the list held in data/cases.json: _read_cases returns it  *)
(* (a missing file is created holding the empty list) and _write_cases     *)
(* replaces it.  A request body or data dict is a function from its keys.  *)
(***************************************************************************)
MinCaseId == 1000

\* the length an incident summary is cut to on escalation (spec 4.7)
SummaryLimit == 200

\* f"CASE-{n}"
CaseId(n) == <<"CASE-", n>>

\* data.get(key, default)
DictGet(data, key, default) ==
    IF key \in DOMAIN data THEN data[key] ELSE default

Chars(n, c) == [i \in 1..n |-> c]

NA == <<"N", "/", "A">>

\* case_manager.create_case, lines 51-60
NewCase(case_id, now, data) ==
    [ case_id             |-> case_id,
      status              |-> "Open",
      created_at          |-> now,
      incident_summary    |-> DictGet(data, "incident_summary", NA),
      severity            |-> DictGet(data, "severity", "Unknown"),
      ml_risk_score       |-> DictGet(data, "ml_risk_score", 0),
      mitre_techniques    |-> DictGet(data, "mitre_techniques", <<>>),
      recommended_actions |-> DictGet(data, "recommended_actions", <<>>) ]

\* app.create_case, lines 227-235
NewStoreCase(case_id, now, data) ==
    [ case_id             |-> case_id,
      status              |-> "Open",
      created_at          |-> now,
      incident_summary    |-> DictGet(data, "incident_summary", NA),
      severity            |-> DictGet(data, "severity", "Unknown"),
      mitre_techniques    |-> DictGet(data, "mitre_techniques", <<>>),
      recommended_actions |-> DictGet(data, "recommended_actions", <<>>) ]

\* the positions of the cases carrying an id
Matches(cases, case_id) ==
    {i \in 1..Len(cases) : cases[i].case_id = case_id}

\* for case in cases: if case["case_id"] == case_id: set the status, return
UpdateEvery(cases, case_id, new_status) ==
    [i \in 1..Len(cases) |->
        IF cases[i].case_id = case_id
        THEN [cases[i] EXCEPT !.status = new_status] ELSE cases[i]]

UpdateFirst(cases, case_id, new_status) ==
    IF Matches(cases, case_id) = {} THEN cases
    ELSE [cases EXCEPT ![SetMin(Matches(cases, case_id))].status = new_status]

(***************************************************************************)
(* Inputs of the case operations                                           *)
(***************************************************************************)
Timestamps == {"2026-01-01 10:00:00"}

ShortSummary == <<"s", "c", "a", "n">>

LongSummary == Chars(201, "x")

FullData ==
    [ incident_summary    |-> ShortSummary,
      severity            |-> "High",
      ml_risk_score       |-> 755,
      mitre_techniques    |-> <<T1078>>,
      recommended_actions |-> <<"Quarantine the affected system.">> ]

\* a body with a long summary and a status of its own
LongData == [incident_summary |-> LongSummary, status |-> "Closed"]

CaseData == {FullData, LongData}

CaseIdInputs ==
    {CaseId(n) : n \in MinCaseId..MaxCaseId} \cup {<<"case-", MinCaseId>>}

StatusInputs == {"InProgress", "Closed"}

(***************************************************************************)
(* case_manager.py : create_case and update_status                         *)
(***************************************************************************)
\* the records create_case may build: random.randint and datetime.now are
\* any id number of the range and any time
CreatedCases(data) ==
    {NewCase(CaseId(n), now, data) :
         n \in MinCaseId..MaxCaseId, now \in Timestamps}

CreateCase(data) ==
    /\ Len(cases_file) + Len(cases_store) < MaxCases
    /\ \E new_case \in CreatedCases(data) :
          /\ cases_file' = Append(cases_file, new_case)
          /\ ret' = [code |-> "case", case |-> <<new_case>>]
    /\ call' = [op |-> "create_case", case_id |-> NoId, status |-> "",
                data |-> data]
    /\ UNCHANGED <<pc, cases_store, stageVars, sevVars, confVars, escVars,
                   extVars>>

UpdateStatus(case_id, new_status) ==
    /\ cases_file' = UpdateFirst(cases_file, case_id, new_status)
    /\ ret' = IF Matches(cases_file, case_id) = {} THEN NoReturn
              ELSE [code |-> "case",
                    case |-> <<cases_file'[
                                 SetMin(Matches(cases_file, case_id))]>>]
    /\ call' = [op |-> "update_status", case_id |-> case_id,
                status |-> new_status, data |-> NoData]
    /\ UNCHANGED <<pc, cases_store, stageVars, sevVars, confVars, escVars,
                   extVars>>

(***************************************************************************)
(* app.py : /api/create-case and /api/update-case-status                   *)
(***************************************************************************)
AppCreateCase(data) ==
    /\ Len(cases_file) + Len(cases_store) < MaxCases
    /\ IF DOMAIN data = {}
       THEN /\ ret' = [code |-> "400", case |-> None]
            /\ UNCHANGED cases_store
       ELSE \E n \in MinCaseId..MaxCaseId, now \in Timestamps :
               LET new_case == NewStoreCase(CaseId(n), now, data)
               IN /\ cases_store' = Append(cases_store, new_case)
                  /\ ret' = [code |-> "200", case |-> <<new_case>>]
    /\ call' = [op |-> "app_create_case", case_id |-> NoId, status |-> "",
                data |-> data]
    /\ UNCHANGED <<pc, cases_file, stageVars, sevVars, confVars, escVars,
                   extVars>>

AppUpdateCaseStatus(case_id, new_status) ==
    /\ cases_store' = UpdateFirst(cases_store, case_id, new_status)
    /\ ret' = IF Matches(cases_store, case_id) = {}
              THEN [code |-> "404", case |-> None]
              ELSE [code |-> "200",
                    case |-> <<cases_store'[
                                 SetMin(Matches(cases_store, case_id))]>>]
    /\ call' = [op |-> "app_update_case_status", case_id |-> case_id,
                status |-> new_status, data |-> NoData]
    /\ UNCHANGED <<pc, cases_file, stageVars, sevVars, confVars, escVars,
                   extVars>>

(***************************************************************************)
(* Specification of the case stores: any sequence of the four operations   *)
(***************************************************************************)
CaseInit ==
    /\ pc = "ready"
    /\ CaseIdle /\ StageIdle /\ SevIdle /\ ConfIdle /\ EscIdle /\ ExtIdle

CaseNext ==
    \/ \E data \in CaseData : CreateCase(data)
    \/ \E case_id \in CaseIdInputs, new_status \in StatusInputs :
          UpdateStatus(case_id, new_status)
    \/ \E data \in CaseData \cup {NoData} : AppCreateCase(data)
    \/ \E case_id \in CaseIdInputs, new_status \in StatusInputs :
          AppUpdateCaseStatus(case_id, new_status)

CaseSpec == CaseInit /\ [][CaseNext]_vars

\* C8: after any sequence of case creations no two cases of one store carry
\* the same case_id.
C8_UniqueCaseIds ==
    /\ \A i, j \in 1..Len(cases_file) :
          i # j => cases_file[i].case_id # cases_file[j].case_id
    /\ \A i, j \in 1..Len(cases_store) :
          i # j => cases_store[i].case_id # cases_store[j].case_id

\* C9: every case built by case creation has an incident summary of at most
\* 200 characters, a longer supplied summary being cut to its first 200,
\* and has status "Open".
C9_SummaryTruncated ==
    call.op \in {"create_case", "app_create_case"} /\ ret.case # None =>
        LET supplied == DictGet(call.data, "incident_summary", NA)
        IN /\ Len(ret.case[1].incident_summary) <= SummaryLimit
           /\ Len(supplied) > SummaryLimit
                 => ret.case[1].incident_summary
                        = SubSeq(supplied, 1, SummaryLimit)
           /\ ret.case[1].status = "Open"

\* the effect of a status update on a list of cases: nothing when no case
\* carries the id, else the status of one case carrying it and nothing else
UpdateFrame(old, new, case_id, new_status) ==
    /\ Len(new) = Len(old)
    /\ Matches(old, case_id) = {} => new = old
    /\ Matches(old, case_id) # {} =>
          \E i \in Matches(old, case_id) :
              \A j \in 1..Len(old) :
                  new[j] = IF j = i
                           THEN [old[j] EXCEPT !.status = new_status]
                           ELSE old[j]

\* the effect of a creation: the cases held before are all still there,
\* unchanged and in place, followed by at most one new case
CreateFrame(old, new) ==
    /\ Len(new) \in {Len(old), Len(old) + 1}
    /\ SubSeq(new, 1, Len(old)) = old

C10_Step ==
    /\ call'.op = "update_status" =>
          /\ UpdateFrame(cases_file, cases_file', call'.case_id,
                         call'.status)
          /\ cases_store' = cases_store
          /\ Matches(cases_file, call'.case_id) = {} => ret' = NoReturn
          /\ Matches(cases_file, call'.case_id) # {} =>
                /\ ret'.case # None
                /\ ret'.case[1].case_id = call'.case_id
                /\ ret'.case[1].status = call'.status
    /\ call'.op = "app_update_case_status" =>
          /\ UpdateFrame(cases_store, cases_store', call'.case_id,
                         call'.status)
          /\ cases_file' = cases_file
          /\ Matches(cases_store, call'.case_id) = {} <=> ret'.code = "404"
    /\ call'.op = "create_case" =>
          /\ CreateFrame(cases_file, cases_file')
          /\ cases_store' = cases_store
    /\ call'.op = "app_create_case" =>
          /\ CreateFrame(cases_store, cases_store')
          /\ cases_file' = cases_file

EscalationThreshold == 700

should_escalate_inclusive(risk, anomaly, malicious) ==
    risk >= EscalationThreshold \/ anomaly >= EscalationThreshold
        \/ malicious

should_escalate(risk, anomaly, malicious) ==
    risk > EscalationThreshold \/ anomaly > EscalationThreshold \/ malicious

\* text[:200]
Truncate(text, limit) ==
    SubSeq(text, 1, IF Len(text) < limit THEN Len(text) ELSE limit)

EscalationData ==
    [ incident_summary    |-> Truncate(event_summary, SummaryLimit),
      severity            |-> "High",
      ml_risk_score       |-> risk_score,
      mitre_techniques    |-> <<T1078>>,
      recommended_actions |-> <<"Quarantine the affected system.">> ]

Escalate ==
    /\ pc = "ready"
    /\ pc' = "done"
    /\ escalated' = should_escalate(risk_score, anomaly_score,
                                    has_malicious_indicator)
    /\ IF escalated'
       THEN \E new_case \in CreatedCases(EscalationData) :
               /\ cases_file' = Append(cases_file, new_case)
               /\ ret' = [code |-> "case", case |-> <<new_case>>]
               /\ call' = [op |-> "create_case", case_id |-> NoId,
                           status |-> "", data |-> EscalationData]
       ELSE UNCHANGED <<cases_file, ret, call>>
    /\ UNCHANGED <<extVars, cases_store, stageVars, sevVars, confVars,
                   risk_score,
                   anomaly_score, has_malicious_indicator, event_summary>>

(***************************************************************************)
(* Specification of the escalation policy: one decision on any scores.     *)
(* Scores are tenths: 700 is 70.0 and 701 is 70.1.                         *)
(***************************************************************************)
ScoreInputs == {0, 690, 699, 700, 701, 710, 1000}

EscInit ==
    /\ pc = "ready"
    /\ risk_score \in ScoreInputs
    /\ anomaly_score \in ScoreInputs
    /\ has_malicious_indicator \in BOOLEAN
    /\ event_summary \in {ShortSummary, LongSummary}
    /\ escalated = FALSE
    /\ StageIdle /\ SevIdle /\ ConfIdle /\ CaseIdle /\ ExtIdle

EscNext == Escalate

EscSpec == EscInit /\ [][EscNext]_vars

\* C7: the decision is true exactly when the risk score is above 70, or the
\* anomaly score is above 70, or the indicator flag is set; (70, 70, False)
\* and (69, 69, False) do not escalate, (71, 0, False) and (0, 0, True) do;
\* a case is opened only when the decision is true.
C7_EscalationPredicate ==
    pc = "done" =>
        /\ escalated <=> \/ risk_score > 700
                         \/ anomaly_score > 700
                         \/ has_malicious_indicator
        /\ (risk_score = 700 /\ anomaly_score = 700
                /\ ~has_malicious_indicator) => ~escalated
        /\ (risk_score = 690 /\ anomaly_score = 690
                /\ ~has_malicious_indicator) => ~escalated
        /\ (risk_score = 710 /\ anomaly_score = 0
                /\ ~has_malicious_indicator) => escalated
        /\ (risk_score = 0 /\ anomaly_score = 0
                /\ has_malicious_indicator) => escalated
        /\ cases_file # <<>> => escalated
        /\ escalated => Len(cases_file) = 1

\* both scores at exactly 70 were assessed and no case was opened
C7_Witness ==
    /\ pc = "done"
    /\ risk_score = 700
    /\ anomaly_score = 700
    /\ ~has_malicious_indicator
    /\ ~escalated
    /\ cases_file = <<>>

(***************************************************************************)
(* ml_engine.py : Python values of an analysis dict                        *)
(*                                                                         *)
(* A value is a record of its type t and its content v: the elements of a  *)
(* list, the tokens of a text, the one number of an int.  A relevance      *)
(* score is a whole number of hundredths or float("inf").  A float computed *)
(* from scores is an exact fraction num/den; den = 0 stands for inf.       *)
(***************************************************************************)
PyList(elems) == [t |-> "list", v |-> elems]

PyStr(tokens) == [t |-> "str", v |-> tokens]

PyInt(n) == [t |-> "int", v |-> <<n>>]

PyNone == [t |-> "None", v |-> <<>>]

PyDict(fields) == [t |-> "dict", v |-> fields]

Infinity == 1000000

\* bool(x), as in "if anomalies" and "if retrieval_scores"
Truthy(x) ==
    CASE x.t = "None" -> FALSE
      [] x.t = "int"  -> x.v[1] # 0
      [] OTHER        -> x.v # <<>>

\* len(x) is defined
HasLen(x) == x.t \in {"list", "str", "dict"}

\* x can be a dict key
Hashable(x) == x.t \in {"str", "int", "None"}

\* analysis.get(key, default)
Get(analysis, key, default) == DictGet(analysis.v, key, default)

Frac(num, den) == [num |-> num, den |-> den]

IsInfinite(x) == x.den = 0

\* float(np.mean(retrieval_scores)) if retrieval_scores else 0.5
MeanOrDefault(retrieval_scores) ==
    IF ~Truthy(retrieval_scores) THEN Frac(50, 100)
    ELSE IF Infinity \in Range(retrieval_scores.v) THEN Frac(1, 0)
    ELSE Frac(SumSeq(retrieval_scores.v), 100 * Len(retrieval_scores.v))

\* np.mean(retrieval_scores) is defined
MeanDefined(retrieval_scores) ==
    ~Truthy(retrieval_scores) \/ retrieval_scores.t = "list"

Scale(x, k) == Frac(x.num * k, x.den)

SetMinOf(a, b) == IF a < b THEN a ELSE b

SetMaxOf(a, b) == IF a > b THEN a ELSE b

\* the texts matched by r'\b\d{1,3}\.\d{1,3}\.\d{1,3}\.\d{1,3}\b'
IpTokens == {"10.0.0.5", "8.8.8.8", "999.1.1.1"}

\* len(set(re.findall(pattern, text)))
ExternalIps(text) == Cardinality(Range(text.v) \cap IpTokens)

(***************************************************************************)
(* ml_engine.py : RiskPredictor.extract_features                           *)
(***************************************************************************)
RiskSeverityMap ==
    ("Critical" :> 95) @@ ("High" :> 75) @@ ("Medium" :> 50) @@ ("Low" :> 20)

\* severity_map.get(analysis.get("severity_rating", ""), default)
SeverityScore(severity_map, rating, default) ==
    IF rating.t = "str" /\ Len(rating.v) = 1
           /\ rating.v[1] \in DOMAIN severity_map
    THEN severity_map[rating.v[1]] ELSE default

\* the statements of extract_features all evaluate without raising
RiskExtractOk(analysis) ==
    /\ analysis.t = "dict"
    /\ Get(analysis, "attack_explanation", PyStr(<<>>)).t = "str"
    /\ HasLen(Get(analysis, "likely_mitre_techniques", PyList(<<>>)))
    /\ Truthy(Get(analysis, "anomalies", PyList(<<>>)))
           => HasLen(Get(analysis, "anomalies", PyList(<<>>)))
    /\ Hashable(Get(analysis, "severity_rating", PyStr(<<>>)))
    /\ MeanDefined(Get(analysis, "retrieval_scores", PyList(<<>>)))

RiskAnomalyIndicatorUncapped(anomalies) ==
    IF Truthy(anomalies) THEN Len(anomalies.v) * 25 ELSE 20

RiskAnomalyIndicator(anomalies) ==
    IF Truthy(anomalies) THEN SetMinOf(Len(anomalies.v) * 25, 100) ELSE 20

extract_features(analysis) ==
    LET techs == Get(analysis, "likely_mitre_techniques", PyList(<<>>))
        anomalies == Get(analysis, "anomalies", PyList(<<>>))
        retrieval_scores == Get(analysis, "retrieval_scores", PyList(<<>>))
        text == Get(analysis, "attack_explanation", PyStr(<<>>))
    IN << ExternalIps(text),
          Len(techs.v),
          RiskAnomalyIndicator(anomalies),
          SeverityScore(RiskSeverityMap,
                        Get(analysis, "severity_rating", PyStr(<<>>)), 40),
          Scale(MeanOrDefault(retrieval_scores), 30) >>

(***************************************************************************)
(* ml_engine.py : BehaviorProfiler._extract_behavior_features              *)
(***************************************************************************)
BehaviorSeverityMap ==
    ("Critical" :> 90) @@ ("High" :> 70) @@ ("Medium" :> 45) @@ ("Low" :> 15)

BehaviorExtractOk(analysis) ==
    /\ analysis.t = "dict"
    /\ HasLen(Get(analysis, "likely_mitre_techniques", PyList(<<>>)))
    /\ MeanDefined(Get(analysis, "retrieval_scores", PyList(<<>>)))
    /\ Truthy(Get(analysis, "anomalies", PyList(<<>>)))
           => HasLen(Get(analysis, "anomalies", PyList(<<>>)))
    /\ Hashable(Get(analysis, "severity_rating", PyStr(<<>>)))

BehaviorAnomalyIndicator(anomalies) ==
    IF Truthy(anomalies) THEN Len(anomalies.v) * 20 ELSE 10

extract_behavior_features(analysis) ==
    LET techs == Get(analysis, "likely_mitre_techniques", PyList(<<>>))
        anomalies == Get(analysis, "anomalies", PyList(<<>>))
        retrieval_scores == Get(analysis, "retrieval_scores", PyList(<<>>))
    IN << Len(techs.v),
          Scale(MeanOrDefault(retrieval_scores), 15),
          BehaviorAnomalyIndicator(anomalies),
          SeverityScore(BehaviorSeverityMap,
                        Get(analysis, "severity_rating", PyStr(<<>>)), 30) >>

(***************************************************************************)
(* ml_engine.py : scores                                                   *)
(*                                                                         *)
(* A returned score is a whole number of tenths.  The regressor's output   *)
(* is a number of hundredths, the isolation forest's decision value a      *)
(* number of thousandths, so 50 - raw * 50 is 5000 - 5 * raw hundredths.   *)
(***************************************************************************)
RiskDefault == 500

AnomalyDefault == 250

\* max(lo, min(hi, x))
ClipLowerOnly(x, lo, hi) == SetMaxOf(lo, x)

Clip(x, lo, hi) == SetMaxOf(lo, SetMinOf(hi, x))

\* round(x, 1): a value halfway between two tenths is not a binary float,
\* the nearest float lies on either side
RoundTenths(x) ==
    LET q == x \div 10
        r == x % 10
    IN IF r < 5 THEN {q} ELSE IF r > 5 THEN {q + 1} ELSE {q, q + 1}

\* round(max(0, min(100, score)), 1)
RiskScores(raw) == RoundTenths(Clip(raw, 0, 10000))

\* round(max(0, min(100, 50 - (raw_score * 50))), 1)
AnomalyScores(raw) == RoundTenths(Clip(5000 - 5 * raw, 0, 10000))

\* values the fitted regressor can return (hundredths)
RiskRawValues == {-500, 0, 4995, 7004, 10000, 12000}

\* values the fitted isolation forest can return (thousandths)
DecisionValues == {-2000, -1000, 0, 1, 500, 1000}

\* check_array rejects a feature vector holding inf; the one float computed
\* from the relevance scores is event_frequency, the fifth risk feature,
\* and events_per_min, the second behaviour feature
RiskVectorFinite(features) == ~IsInfinite(features[5])

FiniteVector(features) == ~IsInfinite(features[2])

(***************************************************************************)
(* ml_engine.py : import of the module, which builds both singletons       *)
(***************************************************************************)
Fitted(source, data) == [fitted |-> TRUE, source |-> source, data |-> data]

\* except Exception: print the error, return the default
Uncaught(default) == [outcome |-> "raised", ret |-> 0]

Caught(default) == [outcome |-> "failed", ret |-> default]

MlCall(op, outcome, refit, raw, input) ==
    [op |-> op, outcome |-> outcome, refit |-> refit, raw |-> raw,
     input |-> input]

\* risk_predictor = RiskPredictor(); behavior_profiler = BehaviorProfiler()
\* rf_ok, if_ok: whether the fit of each estimator on its baseline returns
ImportMlEngine(rf_ok, if_ok) ==
    /\ import_state = "start"
    /\ observations' = <<>>
    /\ observation_count' = 0
    /\ ml_ret' = 0
    /\ IF ~sklearn_available
       THEN /\ risk_model' = NoModel
            /\ bp_model' = NoModel
            /\ import_state' = "imported"
            /\ ml_call' = MlCall("import", "unavailable", "none", 0, PyNone)
       ELSE IF ~rf_ok
       THEN /\ risk_model' = NoModel
            /\ bp_model' = NoModel
            /\ import_state' = "raised"
            /\ ml_call' = MlCall("import", "raised", "none", 0, PyNone)
       ELSE IF ~if_ok
       THEN /\ risk_model' = Fitted("baseline", <<>>)
            /\ bp_model' = NoModel
            /\ import_state' = "raised"
            /\ ml_call' = MlCall("import", "raised", "none", 0, PyNone)
       ELSE /\ risk_model' = Fitted("baseline", <<>>)
            /\ bp_model' = Fitted("baseline", <<>>)
            /\ import_state' = "imported"
            /\ ml_call' = MlCall("import", "scored", "none", 0, PyNone)
    /\ UNCHANGED <<sklearn_available, threads, defVars, pipeVars, pc,
                   stageVars, sevVars, confVars, caseVars, escVars>>

(***************************************************************************)
(* ml_engine.py : RiskPredictor.predict                                    *)
(***************************************************************************)
\* the model after a call: self.model.predict(features) fits nothing
PredictModelRebuilt(model) == Fitted("per call", <<>>)

PredictModel(model) == model

Predict(analysis) ==
    /\ import_state = "imported"
    /\ risk_model' = PredictModel(risk_model)
    /\ IF ~risk_model.fitted
       THEN /\ ml_ret' = RiskDefault
            /\ ml_call' = MlCall("predict", "unavailable", "none", 0,
                                 analysis)
       ELSE IF ~RiskExtractOk(analysis)
       THEN /\ ml_ret' = Caught(RiskDefault).ret
            /\ ml_call' = MlCall("predict", Caught(RiskDefault).outcome,
                                 "none", 0, analysis)
       ELSE IF ~RiskVectorFinite(extract_features(analysis))
       THEN /\ ml_ret' = Caught(RiskDefault).ret
            /\ ml_call' = MlCall("predict", Caught(RiskDefault).outcome,
                                 "none", 0, analysis)
       ELSE \E raw \in RiskRawValues : \E score \in RiskScores(raw) :
                /\ ml_ret' = score
                /\ ml_call' = MlCall("predict", "scored", "none", raw,
                                     analysis)
    /\ UNCHANGED <<sklearn_available, import_state, bp_model,
                   observations, observation_count, threads, defVars,
                   pipeVars, pc, stageVars, sevVars, confVars, caseVars,
                   escVars>>

(***************************************************************************)
(* ml_engine.py : BehaviorProfiler.update_and_score and _retrain           *)
(***************************************************************************)
RetrainInterval == 10

MinObservations == 20

RetrainWindow == 100

\* self.observations[-100:]
LastObservations(obs) ==
    IF Len(obs) <= RetrainWindow THEN obs
    ELSE SubSeq(obs, Len(obs) - RetrainWindow + 1, Len(obs))

\* self.model.fit(X) validates X before it touches the fitted trees
FitDefined(window) == \A i \in 1..Len(window) : FiniteVector(window[i])

\* the model after _retrain: a fit that raises is caught and logged
RetrainDropsModel(model, obs) ==
    IF FitDefined(LastObservations(obs))
    THEN Fitted("window", LastObservations(obs)) ELSE NoModel

Retrain(model, obs) ==
    IF FitDefined(LastObservations(obs))
    THEN Fitted("window", LastObservations(obs)) ELSE model

RetrainOutcome(obs) ==
    IF FitDefined(LastObservations(obs)) THEN "fitted" ELSE "failed"

\* self._observation_count % self.retrain_interval == 0
\*     and len(self.observations) >= 20
RetrainDue(count, obs) ==
    count % RetrainInterval = 0 /\ Len(obs) >= MinObservations

\* self.observations.append(features)
ObserveWindowed(obs, features) == LastObservations(Append(obs, features))

Observe(obs, features) == Append(obs, features)

\* self._observation_count += 1
NextCountStuck(count) == count

NextCount(count) == count + 1

UpdateAndScore(analysis) ==
    /\ import_state = "imported"
    /\ IF ~bp_model.fitted
       THEN /\ ml_ret' = AnomalyDefault
            /\ ml_call' = MlCall("update_and_score", "unavailable", "none",
                                 0, analysis)
            /\ UNCHANGED <<observations, observation_count, bp_model>>
       ELSE IF ~BehaviorExtractOk(analysis)
       THEN /\ ml_ret' = Caught(AnomalyDefault).ret
            /\ ml_call' = MlCall("update_and_score",
                                 Caught(AnomalyDefault).outcome, "none", 0,
                                 analysis)
            /\ UNCHANGED <<observations, observation_count, bp_model>>
       ELSE LET features == extract_behavior_features(analysis)
                obs == Observe(observations, features)
                count == NextCount(observation_count)
            IN /\ observations' = obs
               /\ observation_count' = count
               /\ IF ~FiniteVector(features)
                  THEN /\ ml_ret' = Caught(AnomalyDefault).ret
                       /\ ml_call' = MlCall("update_and_score",
                                            Caught(AnomalyDefault).outcome,
                                            "none", 0, analysis)
                       /\ UNCHANGED bp_model
                  ELSE \E raw \in DecisionValues :
                       \E score \in AnomalyScores(raw) :
                           /\ ml_ret' = score
                           /\ IF RetrainDue(count, obs)
                              THEN /\ bp_model' = Retrain(bp_model, obs)
                                   /\ ml_call' = MlCall("update_and_score",
                                          "scored", RetrainOutcome(obs), raw,
                                          analysis)
                              ELSE /\ UNCHANGED bp_model
                                   /\ ml_call' = MlCall("update_and_score",
                                          "scored", "none", raw, analysis)
    /\ UNCHANGED <<sklearn_available, import_state, risk_model, threads,
                   defVars, pipeVars, pc, stageVars, sevVars, confVars,
                   caseVars, escVars>>

(***************************************************************************)
(* Analyses handed to the two components                                   *)
(***************************************************************************)
FullAnalysis == PyDict(
    [likely_mitre_techniques |-> PyList(<<T1078, T1059>>),
     anomalies |-> PyList(<<"port scan", "beaconing">>),
     retrieval_scores |-> PyList(<<80, 70, 75>>),
     severity_rating |-> PyStr(<<"Critical">>),
     attack_explanation |->
         PyStr(<<"login", "from", "10.0.0.5", "and", "8.8.8.8">>)])

EmptyAnalysis == PyDict(NoData)

\* six anomalies and a severity the tables do not list
ManyAnomalies == PyDict(
    [likely_mitre_techniques |-> PyList(<<T1486>>),
     anomalies |-> PyList(<<"a", "b", "c", "d", "e", "f">>),
     retrieval_scores |-> PyList(<<30>>),
     severity_rating |-> PyStr(<<"Unknown">>)])

\* one anomaly, and four: the first count at which 25 * k reaches 100
OneAnomaly == PyDict([anomalies |-> PyList(<<"a">>)])

FourAnomalies == PyDict(
    [anomalies |-> PyList(<<"a", "b", "c", "d">>),
     severity_rating |-> PyStr(<<"Low">>)])

\* "likely_mitre_techniques": null
NullTechniques == PyDict(
    [likely_mitre_techniques |-> PyNone,
     retrieval_scores |-> PyList(<<65>>)])

\* a relevance score that is float("inf")
InfiniteScore == PyDict(
    [likely_mitre_techniques |-> PyList(<<T1190>>),
     retrieval_scores |-> PyList(<<Infinity>>),
     severity_rating |-> PyStr(<<"High">>)])

\* "severity_rating": a list, which cannot be looked up in a dict
ListSeverity == PyDict([severity_rating |-> PyList(<<"High">>)])

\* "anomalies": 3, which is true and has no len()
NumberAnomalies == PyDict([anomalies |-> PyInt(3)])

\* the analysis is not a dict
NotADict == PyNone

Analyses == {FullAnalysis, EmptyAnalysis, ManyAnomalies, OneAnomaly,
             FourAnomalies, NullTechniques,
             InfiniteScore, ListSeverity, NumberAnomalies, NotADict}

(***************************************************************************)
(* Specification of the two components over a short run                    *)
(***************************************************************************)
MaxObservations == 2

MlInit ==
    /\ sklearn_available \in BOOLEAN
    /\ import_state = "start"
    /\ risk_model = NoModel /\ bp_model = NoModel
    /\ observations = <<>> /\ observation_count = 0
    /\ ml_call = NoMlCall /\ ml_ret = 0
    /\ ThreadIdle /\ DefIdle /\ PipeIdle
    /\ pc = "ready"
    /\ StageIdle /\ SevIdle /\ ConfIdle /\ CaseIdle /\ EscIdle

MlNext ==
    \/ \E rf_ok, if_ok \in BOOLEAN : ImportMlEngine(rf_ok, if_ok)
    \/ \E analysis \in Analyses : Predict(analysis)
    \/ /\ Len(observations) < MaxObservations
       /\ \E analysis \in Analyses : UpdateAndScore(analysis)

MlSpec == MlInit /\ [][MlNext]_vars

\* C11: every value returned by predict and by update_and_score lies in
\* [0, 100] (here 0..1000 tenths), the two defaults included, and the
\* anomaly score is clip(50 - raw * 50, 0, 100) rounded to one decimal:
\* 50.0 for raw = 0, 0.0 for raw >= 1 and 100.0 for raw <= -1.
C11_ScoresInRange ==
    ml_call.op \in {"predict", "update_and_score"} =>
        /\ ml_ret \in 0..1000
        /\ RiskDefault \in 0..1000 /\ AnomalyDefault \in 0..1000
        /\ (ml_call.op = "update_and_score" /\ ml_call.outcome = "scored") =>
               LET mapped == 5000 - 5 * ml_call.raw
                   clipped == IF mapped < 0 THEN 0
                              ELSE IF mapped > 10000 THEN 10000 ELSE mapped
               IN /\ 10 * ml_ret - 5 <= clipped /\ clipped <= 10 * ml_ret + 5
                  /\ ml_call.raw = 0 => ml_ret = 500
                  /\ ml_call.raw >= 1000 => ml_ret = 0
                  /\ ml_call.raw <= -1000 => ml_ret = 1000

\* a raw decision value of -2.0, whose mapped value 150 is clipped to 100.0
C11_Witness ==
    /\ ml_call.op = "update_and_score" /\ ml_call.outcome = "scored"
    /\ ml_call.raw = -2000 /\ ml_ret = 1000

\* C12: when the estimator is unavailable or fails to initialize, predict
\* returns 50.0 and update_and_score returns 25.0, and no failure of the
\* estimator's initialization reaches the code that imports the module and
\* so constructs the two components.
C12_InitFailureDegrades ==
    /\ import_state # "raised"
    /\ (ml_call.op = "predict" /\ ~risk_model.fitted) => ml_ret = 500
    /\ (ml_call.op = "update_and_score" /\ ~bp_model.fitted) => ml_ret = 250

\* analyses whose feature extraction raises
ExtractionRaises == {NullTechniques, ListSeverity, NumberAnomalies, NotADict}

\* analyses whose features are derived and rejected by the estimator
EvaluationRaises == {InfiniteScore}

\* C13: with the model available, a failure of feature extraction or of the
\* estimator's evaluation on a malformed assessment ends in the default:
\* predict returns 50.0, update_and_score returns 25.0, and the call
\* returns rather than raises.
C13_FailuresCaught ==
    /\ ml_call.op \in {"predict", "update_and_score"} =>
           ml_call.outcome \in {"scored", "failed", "unavailable"}
    /\ ( /\ ml_call.op = "predict" /\ risk_model.fitted
         /\ ml_call.input \in ExtractionRaises \cup EvaluationRaises )
           => ml_ret = 500 /\ ml_call.outcome = "failed"
    /\ ( /\ ml_call.op = "update_and_score" /\ bp_model.fitted
         /\ ml_call.input \in ExtractionRaises \cup EvaluationRaises )
           => ml_ret = 250 /\ ml_call.outcome = "failed"

\* update_and_score was handed a null technique list while the model was
\* available
C13_Witness ==
    /\ ml_call.op = "update_and_score" /\ bp_model.fitted
    /\ ml_call.input = NullTechniques /\ ml_ret = 250

\* a step that is a call of update_and_score
IsScoreCall == ml_call'.op = "update_and_score" /\ vars' # vars

C14_Step ==
    IsScoreCall =>
        IF bp_model.fitted /\ ml_call'.input \notin ExtractionRaises
        THEN /\ Len(observations') = Len(observations) + 1
             /\ SubSeq(observations', 1, Len(observations)) = observations
             /\ observation_count' = observation_count + 1
        ELSE /\ observations' = observations
             /\ observation_count' = observation_count

\* C14: a call of update_and_score on an available model that derives a
\* feature vector appends exactly one vector to the history and adds one to
\* the counter; a call on an unavailable model changes neither; so the
\* counter equals the length of the history in every state.
C14_CounterIsHistoryLength ==
    /\ [](observation_count = Len(observations))
    /\ [][C14_Step]_vars

\* two vectors recorded, the second by a call whose scoring then failed
C14_Witness ==
    /\ observation_count = 2 /\ Len(observations) = 2
    /\ ml_call.op = "update_and_score" /\ ml_call.outcome = "failed"

(***************************************************************************)
(* Specification of the profiler over a long run                           *)
(*                                                                         *)
(* The singletons exist and sklearn is installed.  The k-th well-formed    *)
(* assessment is fixed by k, so that the vectors of the history can be     *)
(* told apart; an assessment with an infinite relevance score may arrive   *)
(* among the first MalformedHorizon calls, at most MaxMalformed times.     *)
(***************************************************************************)
MaxCalls == 110

MalformedHorizon == 30

MaxMalformed == 1

Scheduled(k) == PyDict(
    [likely_mitre_techniques |->
         PyList(SubSeq(<<T1078, T1059, T1021>>, 1, k % 3)),
     retrieval_scores |-> PyList(<<80, 70, 75>>),
     severity_rating |-> PyStr(<<"High">>)])

Rejected(obs) == {i \in 1..Len(obs) : ~FiniteVector(obs[i])}

ProfilerInit ==
    /\ sklearn_available = TRUE
    /\ import_state = "imported"
    /\ risk_model = Fitted("baseline", <<>>)
    /\ bp_model = Fitted("baseline", <<>>)
    /\ observations = <<>> /\ observation_count = 0
    /\ ml_call = MlCall("import", "scored", "none", 0, PyNone)
    /\ ml_ret = 0
    /\ ThreadIdle /\ DefIdle /\ PipeIdle
    /\ pc = "ready"
    /\ StageIdle /\ SevIdle /\ ConfIdle /\ CaseIdle /\ EscIdle

ProfilerNext ==
    \/ /\ observation_count < MaxCalls
       /\ UpdateAndScore(Scheduled(observation_count))
    \/ /\ observation_count < MalformedHorizon
       /\ Cardinality(Rejected(observations)) < MaxMalformed
       /\ UpdateAndScore(InfiniteScore)
    \/ UpdateAndScore(NullTechniques)

ProfilerSpec == ProfilerInit /\ [][ProfilerNext]_vars

\* a step that is a call of update_and_score which recorded an observation
IsCountedCall == IsScoreCall /\ observation_count' # observation_count

\* the last n elements of a sequence, all of them when it is shorter
LastOf(seq, n) ==
    LET m == IF Len(seq) < n THEN Len(seq) ELSE n
    IN [i \in 1..m |-> seq[Len(seq) - m + i]]

C15_Step ==
    IsCountedCall =>
        /\ (ml_call'.refit # "none") <=>
               (observation_count' % 10 = 0 /\ Len(observations') >= 20)
        /\ ml_call'.refit = "fitted" =>
               /\ bp_model'.data = LastOf(observations', 100)
               /\ bp_model'.data[Len(bp_model'.data)]
                      = observations'[Len(observations')]
        /\ observation_count' = 10 => ml_call'.refit = "none"
        /\ observation_count' = 20 => ml_call'.refit # "none"

\* C15: a score call triggers a refit exactly when the call count after it
\* is a multiple of N = 10 and at least 20 observations are recorded; the
\* refit uses the last 100 observations (all when fewer), the one just
\* appended included; so the 10th call triggers none, the 20th the first,
\* and every 10th call after it one more.
C15_RetrainPolicy == [][C15_Step]_vars

C16_Step ==
    (IsScoreCall /\ ml_call'.refit = "failed") =>
        /\ ml_call'.outcome = "scored"
        /\ LET mapped == 5000 - 5 * ml_call'.raw
               clipped == IF mapped < 0 THEN 0
                          ELSE IF mapped > 10000 THEN 10000 ELSE mapped
           IN 10 * ml_ret' - 5 <= clipped /\ clipped <= 10 * ml_ret' + 5
        /\ Len(observations') = Len(observations) + 1
        /\ observation_count' = observation_count + 1
        /\ bp_model' = bp_model /\ bp_model'.fitted

\* C16: a refit that fails is caught: the call that triggered it returns the
\* score it computed from the estimator's decision value, the history and
\* the counter keep that call's update, and the model that later calls use
\* is the one fitted before.
C16_FailedRefitKeepsModel == [][C16_Step]_vars

\* a refit failed while the model in use came from an earlier refit
C16_Witness ==
    /\ ml_call.op = "update_and_score" /\ ml_call.refit = "failed"
    /\ bp_model.source = "window" /\ ml_ret # 250

(***************************************************************************)
(* ml_engine.py : update_and_score called from several threads             *)
(*                                                                         *)
(* update_and_score takes no lock, so the interpreter may switch threads   *)
(* between any two of its statements, and between the load and the store   *)
(* of "self._observation_count += 1".  Each thread makes one call; its     *)
(* position and locals are threads[t].  list.append and the slice          *)
(* observations[-100:] are single steps of the interpreter.                *)
(***************************************************************************)
MaxThreads == 2

\* calls made one after the other before the threads start
PriorCalls == 18

RECURSIVE History(_)
History(n) ==
    IF n = 0 THEN <<>>
    ELSE Append(History(n - 1), extract_behavior_features(Scheduled(n - 1)))

ThreadIds == 1..MaxThreads

NewThread == [pc |-> "call", features |-> <<>>, loaded |-> 0, ret |-> 0,
              window |-> <<>>, refit |-> "none"]

At(t, label) == threads[t].pc = label

\* line 173 and lines 176-177: the model test and the feature extraction
ThreadExtract(t) ==
    /\ At(t, "call")
    /\ IF ~bp_model.fitted
       THEN threads' = [threads EXCEPT ![t].pc = "done",
                                       ![t].ret = AnomalyDefault]
       ELSE LET analysis == Scheduled(PriorCalls + t - 1)
            IN IF ~BehaviorExtractOk(analysis)
               THEN threads' = [threads EXCEPT
                        ![t].pc = "done",
                        ![t].ret = Caught(AnomalyDefault).ret]
               ELSE threads' = [threads EXCEPT
                        ![t].pc = "append",
                        ![t].features = extract_behavior_features(analysis)]
    /\ UNCHANGED <<mlVars, defVars, pipeVars, pc, stageVars, sevVars,
                   confVars, caseVars, escVars>>

\* line 178: self.observations.append(features)
ThreadAppend(t) ==
    /\ At(t, "append")
    /\ observations' = Append(observations, threads[t].features)
    /\ threads' = [threads EXCEPT ![t].pc = "load"]
    /\ UNCHANGED <<sklearn_available, import_state, risk_model, bp_model,
                   observation_count, ml_call, ml_ret, defVars, pipeVars, pc,
                   stageVars, sevVars, confVars, caseVars, escVars>>

\* line 179, first half: read self._observation_count
ThreadLoad(t) ==
    /\ At(t, "load")
    /\ threads' = [threads EXCEPT ![t].pc = "store",
                                  ![t].loaded = observation_count]
    /\ UNCHANGED <<mlVars, defVars, pipeVars, pc, stageVars, sevVars,
                   confVars, caseVars, escVars>>

\* line 179, second half: write the sum back
ThreadStore(t) ==
    /\ At(t, "store")
    /\ observation_count' = NextCount(threads[t].loaded)
    /\ threads' = [threads EXCEPT ![t].pc = "score"]
    /\ UNCHANGED <<sklearn_available, import_state, risk_model, bp_model,
                   observations, ml_call, ml_ret, defVars, pipeVars, pc,
                   stageVars, sevVars, confVars, caseVars, escVars>>

\* lines 182-187: the estimator is read while another thread may be
\* refitting it in place, in which case the evaluation may also raise
ThreadScore(t) ==
    /\ At(t, "score")
    /\ \/ \E raw \in DecisionValues : \E score \in AnomalyScores(raw) :
              threads' = [threads EXCEPT ![t].pc = "check", ![t].ret = score]
       \/ /\ \E u \in ThreadIds : u # t /\ At(u, "fit")
          /\ threads' = [threads EXCEPT
                 ![t].pc = "done", ![t].ret = Caught(AnomalyDefault).ret]
    /\ UNCHANGED <<mlVars, defVars, pipeVars, pc, stageVars, sevVars,
                   confVars, caseVars, escVars>>

\* line 190: the retrain test reads the shared counter and history
ThreadCheck(t) ==
    /\ At(t, "check")
    /\ threads' = [threads EXCEPT ![t].pc =
           IF RetrainDue(observation_count, observations)
           THEN "retrain" ELSE "done"]
    /\ UNCHANGED <<mlVars, defVars, pipeVars, pc, stageVars, sevVars,
                   confVars, caseVars, escVars>>

\* line 202: X = np.array(self.observations[-100:])
ThreadSnapshot(t) ==
    /\ At(t, "retrain")
    /\ threads' = [threads EXCEPT ![t].pc = "fit",
                       ![t].window = LastObservations(observations)]
    /\ UNCHANGED <<mlVars, defVars, pipeVars, pc, stageVars, sevVars,
                   confVars, caseVars, escVars>>

\* lines 203-208 and 193: the fit, then the return of the score
ThreadFit(t) ==
    /\ At(t, "fit")
    /\ bp_model' = IF FitDefined(threads[t].window)
                   THEN Fitted("window", threads[t].window) ELSE bp_model
    /\ threads' = [threads EXCEPT ![t].pc = "done",
           ![t].refit = IF FitDefined(threads[t].window)
                        THEN "fitted" ELSE "failed"]
    /\ UNCHANGED <<sklearn_available, import_state, risk_model, observations,
                   observation_count, ml_call, ml_ret, defVars, pipeVars, pc,
                   stageVars, sevVars, confVars, caseVars, escVars>>

ThreadsInit ==
    /\ sklearn_available = TRUE
    /\ import_state = "imported"
    /\ risk_model = Fitted("baseline", <<>>)
    /\ bp_model = Fitted("baseline", <<>>)
    /\ observations = History(PriorCalls)
    /\ observation_count = PriorCalls
    /\ ml_call = MlCall("import", "scored", "none", 0, PyNone)
    /\ ml_ret = 0
    /\ threads = [t \in ThreadIds |-> NewThread]
    /\ DefIdle /\ PipeIdle
    /\ pc = "ready"
    /\ StageIdle /\ SevIdle /\ ConfIdle /\ CaseIdle /\ EscIdle

ThreadsNext == \E t \in ThreadIds :
    \/ ThreadExtract(t)
    \/ ThreadAppend(t)
    \/ ThreadLoad(t)
    \/ ThreadStore(t)
    \/ ThreadScore(t)
    \/ ThreadCheck(t)
    \/ ThreadSnapshot(t)
    \/ ThreadFit(t)

ThreadsSpec == ThreadsInit /\ [][ThreadsNext]_vars

AllDone == \A t \in ThreadIds : At(t, "done")

\* threads that have appended and not yet written the counter
MidUpdate == {t \in ThreadIds : At(t, "load") \/ At(t, "store")}

\* threads that were sent to _retrain
Refitting == {t \in ThreadIds : At(t, "retrain") \/ At(t, "fit")
                                    \/ threads[t].refit # "none"}

\* multiples of N = 10, from 20 on, among the counts the calls pass through
DueCounts(first, last) == {n \in first..last : n % 10 = 0 /\ n >= 20}

\* C17: concurrent calls of update_and_score on the one profiler are
\* serialized under one critical section: no counter increment is lost
\* (after n completed calls the counter is n and the history has n
\* entries), every multiple of N triggers exactly one refit, and no refit
\* reads the history while another call is part-way through its update.
C17_Serialized ==
    /\ AllDone =>
           /\ observation_count = PriorCalls + MaxThreads
           /\ Len(observations) = PriorCalls + MaxThreads
           /\ Cardinality(Refitting)
                  = Cardinality(DueCounts(PriorCalls + 1,
                                          PriorCalls + MaxThreads))
    /\ Cardinality(Refitting)
           <= Cardinality(DueCounts(PriorCalls + 1, PriorCalls + MaxThreads))
    /\ \A t \in ThreadIds : At(t, "retrain") => MidUpdate \ {t} = {}

(***************************************************************************)
(* defensive_logic.py : generate_defense_actions                           *)
(*                                                                         *)
(* Technique ids and anomaly descriptions are sequences of characters,     *)
(* because the rules test for substrings; an action is one string.         *)
(***************************************************************************)
UpperCase == <<"A", "B", "C", "D", "E", "F", "G", "H", "I", "J", "K", "L", "M">>
             \o <<"N", "O", "P", "Q", "R", "S", "T", "U", "V", "W", "X", "Y",
                  "Z">>

LowerCase == <<"a", "b", "c", "d", "e", "f", "g", "h", "i", "j", "k", "l", "m">>
             \o <<"n", "o", "p", "q", "r", "s", "t", "u", "v", "w", "x", "y",
                  "z">>

\* str.lower() of one character
LowerChar(c) ==
    IF \E i \in 1..Len(UpperCase) : UpperCase[i] = c
    THEN LowerCase[CHOOSE i \in 1..Len(UpperCase) : UpperCase[i] = c]
    ELSE c

\* anomaly.lower()
Lower(text) == [i \in 1..Len(text) |-> LowerChar(text[i])]

\* tech == keyword, the test that misses sub-technique ids
IsExactly(keyword, text) == keyword = text

\* keyword in text
Contains(keyword, text) ==
    \E i \in 1..(Len(text) - Len(keyword) + 1) :
        SubSeq(text, i, i + Len(keyword) - 1) = keyword

PortScan == <<"p", "o", "r", "t", " ", "s", "c", "a", "n">>

DataExfiltration == <<"d", "a", "t", "a", " ", "e", "x", "f", "i", "l",
                    "t", "r", "a", "t", "i", "o", "n">>

\* lines 8-18: the severity rules, an if / elif chain
SeverityActions(sev) ==
    IF sev = "Critical"
    THEN {"Isolate the affected host from the network immediately.",
          "Initiate full incident response protocol.",
          "Block all outbound traffic from the source IP."}
    ELSE IF sev = "High"
    THEN {"Quarantine the affected system.",
          "Review firewall logs for suspicious connections.",
          "Reset credentials for involved accounts."}
    ELSE IF sev = "Medium"
    THEN {"Monitor the host for further suspicious activity.",
          "Run a full antivirus scan on the endpoint."}
    ELSE {}

\* lines 21-33: the technique rules, four independent ifs per technique
TechniqueActions(tech) ==
    (IF Contains(T1078, tech)
     THEN {"Force password reset for all affected users.",
           "Audit authentication logs for unauthorized access."} ELSE {})
    \cup
    (IF Contains(T1190, tech)
     THEN {"Patch the vulnerable application immediately.",
           "Check web server logs for exploitation attempts."} ELSE {})
    \cup
    (IF Contains(T1059, tech)
     THEN {"Disable PowerShell/CMD execution for non-admin users.",
           "Review script execution history."} ELSE {})
    \cup
    (IF Contains(T1021, tech)
     THEN {"Restrict SMB/RDP access between workstations.",
           "Implement network segmentation to contain spread."} ELSE {})

\* lines 38-42: the anomaly rules
AnomalyActions(anomaly) ==
    (IF Contains(PortScan, Lower(anomaly))
     THEN {"Block the scanning source IP at the perimeter firewall."}
     ELSE {})
    \cup
    (IF Contains(DataExfiltration, Lower(anomaly))
     THEN {"Inspect outbound traffic for sensitive data patterns.",
           "Revoke API keys if application data is involved."} ELSE {})

\* lines 45-47
FallbackActions == {"Conduct a manual investigation of the event context.",
                    "Document findings in the incident management system."}

\* if not actions: add the two fallback actions
WithFallbackAlways(acts) == acts \cup FallbackActions

WithFallback(acts) == IF acts = {} THEN FallbackActions ELSE acts

\* the returned list, as the set of its elements
generate_defense_actions(sev, techs, anomalies) ==
    WithFallback(
        SeverityActions(sev)
        \cup UNION {TechniqueActions(techs[i]) : i \in 1..Len(techs)}
        \cup (IF Truthy(anomalies)
              THEN UNION {AnomalyActions(anomalies.v[i]) :
                              i \in 1..Len(anomalies.v)}
              ELSE {}))

(***************************************************************************)
(* Specification of the defense action engine                              *)
(***************************************************************************)
MaxAnomalies == 2

DefSeverities == {"Critical", "High", "Medium", "Low", "Unknown"}

DefTechIds == {T1078, T1078_004, T1190, T1059_001, T1021, T1486}

ShoutedPortScan == <<"P", "O", "R", "T", " ", "S", "C", "A", "N">>

MixedExfiltration ==
    <<"D", "a", "t", "a", " ", "E", "x", "f", "i", "l">>
    \o <<"t", "r", "a", "t", "i", "o", "n", "?">>

Beaconing == <<"b", "e", "a", "c", "o", "n", "i", "n", "g">>

AnomalyTexts == {ShoutedPortScan, MixedExfiltration, Beaconing}

AnomalyInputs ==
    {PyNone} \cup {PyList(a) : a \in SeqsUpTo(AnomalyTexts, MaxAnomalies)}

GenerateDefenseActions(sev, techs, anomalies) ==
    /\ pc = "ready"
    /\ def_severity' = sev
    /\ def_techniques' = techs
    /\ def_anomalies' = anomalies
    /\ actions' = generate_defense_actions(sev, techs, anomalies)
    /\ pc' = "done"
    /\ UNCHANGED <<mlVars, threads, pipeVars, stageVars, sevVars, confVars,
                   caseVars, escVars>>

DefenseInit ==
    /\ DefIdle
    /\ MlIdle /\ ThreadIdle /\ PipeIdle
    /\ pc = "ready"
    /\ StageIdle /\ SevIdle /\ ConfIdle /\ CaseIdle /\ EscIdle

DefenseNext ==
    /\ pc = "ready"
    /\ \E sev \in DefSeverities, techs \in SeqsUpTo(DefTechIds, MaxTechs),
          anomalies \in AnomalyInputs :
           GenerateDefenseActions(sev, techs, anomalies)

DefenseSpec == DefenseInit /\ [][DefenseNext]_vars

\* keyword occurs in text, position by position
Occurs(keyword, text) ==
    \E start \in 0..(Len(text) - Len(keyword)) :
        \A j \in 1..Len(keyword) : text[start + j] = keyword[j]

SameLetter(a, b) ==
    a = b \/ \E i \in 1..Len(UpperCase) : {a, b} = {UpperCase[i], LowerCase[i]}

\* keyword occurs in text when the case of letters is ignored
OccursAnyCase(keyword, text) ==
    \E start \in 0..(Len(text) - Len(keyword)) :
        \A j \in 1..Len(keyword) : SameLetter(text[start + j], keyword[j])

TechniqueKeywords == {T1078, T1190, T1059, T1021}

AnomalyKeywords == {PortScan, DataExfiltration}

SeverityFired == def_severity \in {"Critical", "High", "Medium"}

FiredTechniqueKeywords ==
    {k \in TechniqueKeywords :
        \E i \in 1..Len(def_techniques) : Occurs(k, def_techniques[i])}

FiredAnomalyKeywords ==
    IF def_anomalies.t = "list"
    THEN {k \in AnomalyKeywords :
             \E i \in 1..Len(def_anomalies.v) :
                 OccursAnyCase(k, def_anomalies.v[i])}
    ELSE {}

AnyRuleFired ==
    SeverityFired \/ FiredTechniqueKeywords # {} \/ FiredAnomalyKeywords # {}

\* C18: generate_defense_actions returns the two-element fallback set
\* exactly when no severity, technique or anomaly rule fired; severity Low
\* or unrecognized with no techniques and anomalies None gives exactly the
\* fallback; when a rule fired neither fallback action is in the result.
C18_FallbackIffNoRule ==
    pc = "done" =>
        /\ Cardinality(FallbackActions) = 2
        /\ (actions = FallbackActions) <=> ~AnyRuleFired
        /\ AnyRuleFired => actions \cap FallbackActions = {}
        /\ ( /\ ~SeverityFired /\ def_techniques = <<>>
             /\ def_anomalies.t = "None" ) => actions = FallbackActions

\* severity Low, no techniques, anomalies None
C18_Witness ==
    /\ pc = "done" /\ def_severity = "Low" /\ def_techniques = <<>>
    /\ def_anomalies.t = "None" /\ actions = FallbackActions

\* C19: the rules are additive: when a rule fires the result is exactly the
\* union of the actions of the matching severity rule, of every technique
\* keyword that occurs inside some technique id (sub-technique ids fire the
\* base rule) and of every anomaly keyword matched without regard to case;
\* severity Critical with [T1078] holds the isolate-host action and both
\* T1078 actions.
C19_RulesAdditive ==
    pc = "done" =>
        /\ AnyRuleFired =>
               actions = SeverityActions(def_severity)
                   \cup UNION {TechniqueActions(k) :
                                   k \in FiredTechniqueKeywords}
                   \cup UNION {AnomalyActions(k) : k \in FiredAnomalyKeywords}
        /\ (def_severity = "Critical" /\ def_techniques = <<T1078>>) =>
               {"Isolate the affected host from the network immediately.",
                "Force password reset for all affected users.",
                "Audit authentication logs for unauthorized access."}
                   \subseteq actions

\* a sub-technique id, an upper-case anomaly and a severity rule together
C19_Witness ==
    /\ pc = "done" /\ def_severity = "Critical"
    /\ def_techniques = <<T1078_004, T1486>>
    /\ def_anomalies.t = "list" /\ def_anomalies.v = <<ShoutedPortScan>>
    /\ Cardinality(actions) = 6

(***************************************************************************)
(* rag_engine.py : process_query, from the answer of the LLM chain on      *)
(***************************************************************************)
\* what chain.invoke produced: a parsed JSON object, or an exception
LlmAnswer(json) == [ok |-> TRUE, value |-> json]

LlmRaised == [ok |-> FALSE, value |-> NoData]

\* line 198: severity = determine_severity(current_stage, conf_level)
PipelineSeverityFromNext(prog, conf) ==
    determine_severity(prog.next_stage, conf.level)

PipelineSeverity(prog, conf) ==
    determine_severity(prog.current_stage, conf.level)

\* lines 201-216: the final wrapper
FinalOutput(json, retrieved) ==
    LET techs == DictGet(json, "likely_mitre_techniques", <<>>)
        prog == analyze_attack_progression(techs)
        conf == calculate_confidence(retrieved)
    IN [ attack_explanation      |-> DictGet(json, "attack_explanation", None),
         likely_mitre_techniques |-> techs,
         possible_next_steps     |-> DictGet(json, "possible_next_steps", None),
         evidence_from_kb        |-> DictGet(json, "evidence_from_kb", None),
         retrieval_scores        |-> retrieved,
         attack_timeline         |-> prog.stage_status,
         current_attack_stage    |-> prog.current_stage,
         predicted_next_stage    |-> prog.next_stage,
         confidence_level        |-> conf.level,
         confidence_reason       |-> conf.reason,
         severity_rating         |-> PipelineSeverity(prog, conf) ]

\* lines 187-232: the try block and its except clause
ProcessQuery ==
    /\ pc = "ready"
    /\ pc' = "done"
    /\ result' = IF analysis_json.ok
                 THEN [kind |-> "analysis",
                       analysis |-> FinalOutput(analysis_json.value, scores)]
                 ELSE [kind |-> "error"]
    /\ UNCHANGED <<analysis_json, scores, confidence, mlVars, threads,
                   defVars, stageVars, sevVars, caseVars, escVars>>

(***************************************************************************)
(* Specification of the pipeline                                           *)
(***************************************************************************)
PipeTechIds == {T1078, T1059_001, T1041, T1486, T1486_002, T9999}

LlmJson(techs) ==
    [attack_explanation |-> "explanation",
     likely_mitre_techniques |-> techs,
     possible_next_steps |-> <<"next step">>,
     evidence_from_kb |-> <<"evidence">>]

\* an answer without the technique list
LlmJsonNoTechniques == [attack_explanation |-> "explanation"]

LlmAnswers ==
    {LlmAnswer(LlmJson(techs)) : techs \in SeqsUpTo(PipeTechIds, MaxTechs)}
    \cup {LlmAnswer(LlmJsonNoTechniques), LlmRaised}

\* the relevance scores of the k = 3 retrieved documents, in hundredths
RetrievedScores == {<<>>, <<80, 70, 75>>, <<65>>, <<46, 45>>, <<30, 100, -20>>}

PipeInit ==
    /\ pc = "ready"
    /\ analysis_json \in LlmAnswers
    /\ scores \in RetrievedScores
    /\ confidence = NoConfidence
    /\ result = NoOutput
    /\ MlIdle /\ ThreadIdle /\ DefIdle
    /\ StageIdle /\ SevIdle /\ CaseIdle /\ EscIdle

PipeNext == ProcessQuery

PipeSpec == PipeInit /\ [][PipeNext]_vars

\* C20: the assessment the pipeline returns is consistent with itself: its
\* severity_rating is determine_severity of its own current_attack_stage
\* and confidence_level, its stage and timeline are those derived from its
\* likely_mitre_techniques, its confidence_level the one derived from its
\* retrieval_scores; techniques [T1486] with scores [0.8, 0.7, 0.75] give
\* stage Impact, confidence High, severity Critical.
C20_AssessmentConsistent ==
    (pc = "done" /\ result.kind = "analysis") =>
        LET a == result.analysis
            prog == analyze_attack_progression(a.likely_mitre_techniques)
        IN /\ a.severity_rating
                  = determine_severity(a.current_attack_stage,
                                       a.confidence_level)
           /\ a.current_attack_stage = prog.current_stage
           /\ a.attack_timeline = prog.stage_status
           /\ a.confidence_level
                  = calculate_confidence(a.retrieval_scores).level
           /\ ( /\ a.likely_mitre_techniques = <<T1486>>
                /\ a.retrieval_scores = <<80, 70, 75>> )
                  => /\ a.current_attack_stage = "Impact"
                     /\ a.confidence_level = "High"
                     /\ a.severity_rating = "Critical"

\* the end-to-end example of the claim
C20_Witness ==
    /\ pc = "done" /\ result.kind = "analysis"
    /\ result.analysis.likely_mitre_techniques = <<T1486>>
    /\ result.analysis.retrieval_scores = <<80, 70, 75>>
    /\ result.analysis.severity_rating = "Critical"

(***************************************************************************)
(* app.py : analyze, over an answer of the LLM whose fields may have any   *)
(* JSON shape.  A technique id is a str value whose content is its         *)
(* sequence of characters.                                                 *)
(***************************************************************************)
\* "for tech in techniques" can start
Iterable(x) == x.t \in {"list", "str"}

\* the values the loop visits: the elements of a list, the characters of a
\* string
Items(x) ==
    IF x.t = "str" THEN [i \in 1..Len(x.v) |-> PyStr(<<x.v[i]>>)] ELSE x.v

\* analyze_attack_progression returns: a non-string element is either
\* unhashable (MITRE_STAGE_MAP.get raises) or absent from the table, and
\* then '"." in tech' raises
ProgressionOk(techs) ==
    /\ Iterable(techs)
    /\ \A i \in 1..Len(Items(techs)) : Items(techs)[i].t = "str"

PlainTechniques(techs) ==
    [i \in 1..Len(Items(techs)) |-> Items(techs)[i].v]

ErrorResult == [kind |-> "error"]

\* rag_engine.py lines 187-232 on a typed answer
process_query(answer, retrieved) ==
    IF ~answer.ok THEN ErrorResult
    ELSE IF answer.value.t # "dict" THEN ErrorResult
    ELSE LET techs == Get(answer.value, "likely_mitre_techniques",
                          PyList(<<>>))
         IN IF ~ProgressionOk(techs) THEN ErrorResult
            ELSE [kind |-> "analysis",
                  analysis |-> FinalOutput(
                      [likely_mitre_techniques |-> PlainTechniques(techs),
                       attack_explanation |->
                           Get(answer.value, "attack_explanation", None),
                       possible_next_steps |->
                           Get(answer.value, "possible_next_steps", None),
                       evidence_from_kb |->
                           Get(answer.value, "evidence_from_kb", None)],
                      retrieved)]

\* app.py line 123: the handler's own except clause
HttpError == [kind |-> "http_error", status |-> 500]

\* app.py lines 76-123
AppAnalyze ==
    /\ pc = "ready"
    /\ pc' = "done"
    /\ LET r == process_query(analysis_json, scores)
       IN result' =
              IF r.kind = "error" THEN HttpError
              ELSE [kind |-> "analysis",
                    analysis |->
                        [recommended_actions |->
                             generate_defense_actions(
                                 r.analysis.severity_rating,
                                 r.analysis.likely_mitre_techniques, PyNone)]
                        @@ r.analysis]
    /\ UNCHANGED <<analysis_json, scores, confidence, mlVars, threads,
                   defVars, stageVars, sevVars, caseVars, escVars>>

(***************************************************************************)
(* Specification of the analyze endpoint                                   *)
(***************************************************************************)
TechniqueValues ==
    {PyStr(T1078), PyStr(T1486_002), PyNone, PyInt(1059), PyList(<<>>)}

TypedJson(techs) == PyDict(
    [likely_mitre_techniques |-> techs,
     attack_explanation |-> PyStr(<<"explanation">>),
     possible_next_steps |-> PyList(<<>>),
     evidence_from_kb |-> PyNone])

TypedAnswers ==
    {LlmAnswer(TypedJson(PyList(techs))) :
         techs \in SeqsUpTo(TechniqueValues, MaxTechs)}
    \cup {LlmAnswer(TypedJson(PyNone)), LlmAnswer(TypedJson(PyStr(T1059))),
          LlmAnswer(TypedJson(PyInt(7))), LlmAnswer(PyDict(NoData)),
          LlmAnswer(PyList(<<>>)), LlmRaised}

AnalyzeInit ==
    /\ pc = "ready"
    /\ analysis_json \in TypedAnswers
    /\ scores \in RetrievedScores
    /\ confidence = NoConfidence
    /\ result = NoOutput
    /\ MlIdle /\ ThreadIdle /\ DefIdle
    /\ StageIdle /\ SevIdle /\ CaseIdle /\ EscIdle

AnalyzeNext == AppAnalyze

AnalyzeSpec == AnalyzeInit /\ [][AnalyzeNext]_vars

DerivedFields ==
    {"attack_timeline", "current_attack_stage", "predicted_next_stage",
     "confidence_level", "confidence_reason", "severity_rating",
     "recommended_actions"}

\* C21: for every assessment object the LLM delivered, whichever of its
\* fields are missing, null or of the wrong shape, the pipeline yields a
\* complete output carrying every derived field, never an error result
\* without them.
C21_NoFatalError ==
    (pc = "done" /\ analysis_json.ok /\ analysis_json.value.t = "dict") =>
        /\ result.kind = "analysis"
        /\ DerivedFields \subseteq DOMAIN result.analysis

(***************************************************************************)
(* The anomaly indicator of the two feature vectors                        *)
(***************************************************************************)
\* the number of anomalies of the analysis of the last call
AnomalyCount == Len(Get(ml_call.input, "anomalies", PyList(<<>>)).v)

\* C25: the anomaly indicator of the risk features is 20 for no anomaly and
\* min(25 * k, 100) for k anomalies, so 100 from k = 4 on; the one of the
\* behaviour features is 10 for no anomaly and 20 * k otherwise, without a
\* cap; the two rules do not share their constants, and up to four
\* anomalies they never give the same value.
C25_AnomalyIndicators ==
    ml_call.outcome = "scored" =>
        /\ ml_call.op = "predict" =>
               extract_features(ml_call.input)[3] =
                   IF AnomalyCount = 0 THEN 20
                   ELSE IF AnomalyCount >= 4 THEN 100
                   ELSE 25 * AnomalyCount
        /\ ml_call.op = "update_and_score" =>
               observations[Len(observations)][3] =
                   IF AnomalyCount = 0 THEN 10 ELSE 20 * AnomalyCount
        /\ AnomalyCount <= 4 =>
               extract_features(ml_call.input)[3]
                   # extract_behavior_features(ml_call.input)[3]

\* a scored prediction for six anomalies, beyond the cap
C25_Witness ==
    /\ ml_call.op = "predict" /\ ml_call.outcome = "scored"
    /\ ml_call.input = ManyAnomalies
    /\ AnomalyCount = 6

(***************************************************************************)
(* The observation history over the calls of update_and_score              *)
(***************************************************************************)
C26_Step ==
    /\ Len(observations) <= Len(observations')
    /\ \A i \in 1..Len(observations) : observations'[i] = observations[i]
    /\ (IsScoreCall /\ ml_call'.refit # "none") =>
           Len(observations') = Len(observations) + 1

\* C26: the observation history is append-only: over score calls, refits,
\* failed refits and failed scorings the earlier history is a prefix of the
\* later one, and a refit, which reads the last 100 entries, leaves the
\* history at its full length.
C26_AppendOnly == [][C26_Step]_vars

\* a refit over a history longer than the window it reads
C26_Witness ==
    /\ ml_call.op = "update_and_score" /\ ml_call.refit = "fitted"
    /\ Len(observations) > 100
    /\ Len(bp_model.data) = 100

(***************************************************************************)
(* What a call of predict leaves alone                                     *)
(***************************************************************************)
\* a step that is a call of predict
IsPredictCall == ml_call'.op = "predict" /\ vars' # vars

C27_Step ==
    /\ IsPredictCall =>
           /\ risk_model' = risk_model
           /\ bp_model' = bp_model
           /\ observations' = observations
           /\ observation_count' = observation_count
    /\ risk_model' # risk_model => ml_call'.op = "import"

\* C27: the risk model is fitted at construction and by no later call: a
\* call of predict, whether it scores or fails, leaves the fitted risk
\* model and all state of the behaviour profiler (its model, its history
\* and its counter) as they were.
C27_PredictFrame == [][C27_Step]_vars

\* a failed prediction after the profiler has recorded an observation
C27_Witness ==
    /\ ml_call.op = "predict" /\ ml_call.outcome = "failed"
    /\ risk_model = Fitted("baseline", <<>>)
    /\ Len(observations) > 0

(***************************************************************************)
(* case_manager.py : calls that run at the same time                       *)
(*                                                                         *)
(* Each call reads the whole file into a list of its own, changes that     *)
(* list and writes it back; nothing in case_manager.py orders two calls.   *)
(* open(CASES_FILE, "w") empties the file before json.dump fills it, and   *)
(* _read_cases answers [] for a file json.load cannot decode, so a read    *)
(* between the two sees the empty list.                                    *)
(***************************************************************************)
NewCaseThread == [pc |-> "call", op |-> "none", case_id |-> NoId,
                  status |-> "", cases |-> <<>>, ret |-> NoReturn]

\* the case a first call of create_case has left in the file
StoredCase == NewCase(CaseId(MinCaseId), "2026-01-01 10:00:00", FullData)

\* create_case, lines 47-62: cases = _read_cases(), then the append
CaseThreadCreate(t, data) ==
    /\ At(t, "call")
    /\ \E new_case \in CreatedCases(data) :
           threads' = [threads EXCEPT
               ![t].pc = "modified",
               ![t].op = "create_case",
               ![t].case_id = new_case.case_id,
               ![t].cases = Append(cases_file, new_case),
               ![t].ret = [code |-> "case", case |-> <<new_case>>]]
    /\ UNCHANGED <<caseVars, pc, stageVars, sevVars, confVars, escVars,
                   mlVars, defVars, pipeVars>>

\* update_status, lines 78-86: cases = _read_cases(), then the loop, which
\* returns None without a write when no case carries the id
CaseThreadUpdate(t, case_id, new_status) ==
    /\ At(t, "call")
    /\ LET cases == UpdateFirst(cases_file, case_id, new_status)
           found == Matches(cases_file, case_id)
       IN threads' = [threads EXCEPT
              ![t].pc = IF found = {} THEN "done" ELSE "modified",
              ![t].op = "update_status",
              ![t].case_id = case_id,
              ![t].status = new_status,
              ![t].cases = cases,
              ![t].ret = IF found = {} THEN NoReturn
                         ELSE [code |-> "case",
                               case |-> <<cases[SetMin(found)]>>]]
    /\ UNCHANGED <<caseVars, pc, stageVars, sevVars, confVars, escVars,
                   mlVars, defVars, pipeVars>>

\* _write_cases, line 36: open(CASES_FILE, "w") empties the file
CaseThreadOpen(t) ==
    /\ At(t, "modified")
    /\ cases_file' = <<>>
    /\ threads' = [threads EXCEPT ![t].pc = "open"]
    /\ UNCHANGED <<cases_store, call, ret, pc, stageVars, sevVars,
                   confVars, escVars, mlVars, defVars, pipeVars>>

\* _write_cases, line 37, and the return of the call
CaseThreadDump(t) ==
    /\ At(t, "open")
    /\ cases_file' = threads[t].cases
    /\ threads' = [threads EXCEPT ![t].pc = "done"]
    /\ UNCHANGED <<cases_store, call, ret, pc, stageVars, sevVars,
                   confVars, escVars, mlVars, defVars, pipeVars>>

CaseThreadsInit ==
    /\ cases_file = <<StoredCase>>
    /\ cases_store = <<>> /\ call = NoCall /\ ret = NoReturn
    /\ threads = [t \in ThreadIds |-> NewCaseThread]
    /\ MlIdle /\ DefIdle /\ PipeIdle
    /\ pc = "ready"
    /\ StageIdle /\ SevIdle /\ ConfIdle /\ EscIdle

CaseThreadsNext == \E t \in ThreadIds :
    \/ CaseThreadCreate(t, LongData)
    \/ \E case_id \in {CaseId(MinCaseId), <<"case-", MinCaseId>>},
          new_status \in StatusInputs :
          CaseThreadUpdate(t, case_id, new_status)
    \/ CaseThreadOpen(t)
    \/ CaseThreadDump(t)

CaseThreadsSpec == CaseThreadsInit /\ [][CaseThreadsNext]_vars

\* every call has returned
AllReturned == \A t \in ThreadIds : At(t, "done")

\* the statuses the returned updates of one case asked for
AskedStatuses(case_id) ==
    {threads[t].status : t \in {u \in ThreadIds :
        /\ threads[u].op = "update_status"
        /\ threads[u].case_id = case_id
        /\ threads[u].ret # NoReturn}}

\* C28: no created case is lost from the file: once every call of an
\* interleaving of create_case and update_status has returned, the file
\* holds the record of every create_case that returned, and the case of
\* every update that returned a case carries a status an update asked for.
C28_NoCaseLost ==
    AllReturned =>
        \A t \in ThreadIds :
            /\ threads[t].op = "create_case" =>
                   \E i \in 1..Len(cases_file) :
                       [cases_file[i] EXCEPT !.status = "Open"]
                           = threads[t].ret.case[1]
            /\ (threads[t].op = "update_status"
                    /\ threads[t].ret # NoReturn) =>
                   \E i \in 1..Len(cases_file) :
                       /\ cases_file[i].case_id = threads[t].case_id
                       /\ cases_file[i].status
                              \in AskedStatuses(threads[t].case_id)

====
